---- MODULE Spec2Model ----
(***************************************************************************)
(* Offline-first task store with a mutation queue and a sync engine.       *)
(* TaskService (src/src/services/taskService.ts) writes task rows and      *)
(* enqueues one queue item per mutation; SyncService                       *)
(* (src/src/services/syncService.ts) drains the queue in batches.  Every   *)
(* `await` on the database is a scheduling point: one action is one        *)
(* database statement together with the synchronous code around it.        *)
(***************************************************************************)
EXTENDS Integers, Sequences, FiniteSets, TLC

VARIABLES
  now,        \* the wall clock in milliseconds (Date.now())
  tasks,      \* table tasks: task id -> row
  queue,      \* table sync_queue: a set of rows, primary key id
  client,     \* one record per in-flight TaskService call
  sync,       \* one record per in-flight SyncService.sync() call
  attached,   \* TaskService.syncService is set
  batchSize,  \* process.env.SYNC_BATCH_SIZE
  markedBy,   \* history: the queue item whose success last marked the task synced
  conflict,   \* the remote authority's version of a task, and a resolution of it
  http,       \* the state of the POST /sync request that drives each sync() call
  batch,      \* a POST /batch request and its response
  budget      \* what is left of the bounds of the exploration

vars ==
  <<now, tasks, queue, client, sync, attached, batchSize, markedBy, conflict, http, batch,
    budget>>

----------------------------------------------------------------------------
(* Bounds of the exploration *)

\* one call at a time (Spec): calls of TaskService and of sync(), injected
\* storage faults, clock ticks
MaxCalls == 4
MaxFaults == 3
MaxTime == 1
\* overlapping calls (SpecConc)
ConcCalls == 3
ConcFaults == 1
ConcTime == 1
\* SYNC_BATCH_SIZE ranges over 1..MaxBatch
MaxBatch == 2
\* POST /sync requests served one at a time (SpecRoute)
RouteCalls == 4
RouteFaults == 2
RouteTime == 1
\* one call at a time from a database with history (SpecSeeded)
SeedCalls == 3
SeedFaults == 2
SeedTime == 1
\* calls, storage faults and clock ticks of a behaviour that reads two tasks
ReadCalls == 4
ReadFaults == 1
ReadTime == 1
\* calls of TaskService, storage faults and clock ticks of a behaviour in which
\* sync cycles are triggered for ever
LiveCalls == 2
LiveFaults == 1
LiveTime == 1
\* the items of a POST /batch request number 0..MaxItems
MaxItems == 2
\* the updated_at of the versions handed to resolveConflict range over 0..MaxStamp
MaxStamp == 2

TaskIds == {"t1"}
\* the ids of a behaviour that lists several tasks
ReadIds == {"t1", "t2"}
Clients == {"c1", "c2"}
Engines == {"s1", "s2"}

----------------------------------------------------------------------------
(* Values *)

None == <<>>
Some(x) == <<x>>

\* a || b of JavaScript for an optional value: the fallback when the value is
\* undefined or falsy ('' and false)
OrElse(v, falsy, fallback) == IF v = None \/ v = Some(falsy) THEN fallback ELSE v[1]

\* raw ids a caller may hand to createTask
StrId(s) == [kind |-> "string", val |-> s]
MissingId == [kind |-> "missing", val |-> ""]
NumberId == [kind |-> "number", val |-> ""]
RawIds == {StrId("t1"), StrId(" t1 "), StrId(""), StrId("  "), MissingId, NumberId}

\* String.prototype.trim on the strings of RawIds
Trim(s) == CASE s = " t1 " -> "t1"
             [] s = "  " -> ""
             [] OTHER -> s

\* a validation that forgets to trim
ValidIdUntrimmed(raw) == raw.kind = "string" /\ raw.val # ""

\* taskService.ts:17
ValidId(raw) == raw.kind = "string" /\ raw.val # "" /\ Trim(raw.val) # ""

CreateData ==
  { [title |-> Some("a"), description |-> None, completed |-> None],
    [title |-> None, description |-> Some("d"), completed |-> Some(TRUE)] }

Updates ==
  { [title |-> Some("b"), description |-> None, completed |-> None],
    [title |-> None, description |-> None, completed |-> Some(TRUE)] }

NoData == [title |-> None, description |-> None, completed |-> None]

\* a local mutation that leaves the row marked as propagated
LocalStatusSynced == "synced"

\* the status every local mutation writes (taskService.ts:53, 127, 191, 240)
LocalStatus == "pending"

\* taskService.ts:45-56 and 119-130: the task object of a create or a restore
NewTask(id, data, t) ==
  [ id |-> id,
    title |-> OrElse(data.title, "", ""),
    description |-> IF data.description = None \/ data.description = Some("")
                    THEN None ELSE data.description,
    completed |-> OrElse(data.completed, FALSE, FALSE),
    created_at |-> t,
    updated_at |-> t,
    is_deleted |-> FALSE,
    sync_status |-> LocalStatus,
    server_id |-> None,
    last_synced_at |-> None ]

\* taskService.ts:187-192: {...existingTask, ...updates, updated_at, sync_status}
UpdatedTask(existing, upd, t) ==
  [ existing EXCEPT
      !.title = IF upd.title = None THEN @ ELSE upd.title[1],
      !.description = IF upd.description = None THEN @ ELSE upd.description,
      !.completed = IF upd.completed = None THEN @ ELSE upd.completed[1],
      !.updated_at = t,
      !.sync_status = LocalStatus ]

\* taskService.ts:246: {...existingTask, is_deleted: true, updated_at}
DeletedTask(existing, t) ==
  [ existing EXCEPT !.is_deleted = TRUE, !.updated_at = t ]

IdleClient(res) ==
  [ pc |-> "idle", call |-> "none", op |-> "none", id |-> "", data |-> NoData,
    existing |-> None, obj |-> None, result |-> res, got |-> None, list |-> <<>> ]

\* no remote version is known and resolveConflict was not called
NoConflict == [local |-> None, server |-> None, winner |-> None]

\* no POST /batch request was made
NoBatch == [request |-> None, response |-> None]

IdleSync ==
  [ pc |-> "idle", items |-> <<>>, k |-> 0, b |-> 0, synced |-> 0, failed |-> 0,
    errors |-> <<>>, err |-> "none", result |-> None ]

----------------------------------------------------------------------------
(* The database *)

\* tasks has a row with this primary key
HasRow(id) == id \in DOMAIN tasks

\* INSERT INTO tasks / UPDATE tasks ... WHERE id = ?: the table with the row put
PutRow(id, row) == [t \in DOMAIN tasks \cup {id} |-> IF t = id THEN row ELSE tasks[t]]

\* syncService.ts:90: `sync_${taskId}_${operation}_${Date.now()}`
QueueId(taskId, operation, t) == <<taskId, operation, t>>

\* sync_queue has a row with this primary key (database.ts:53)
HasItem(qid) == \E it \in queue : it.id = qid

\* JSON.stringify of a task object: properties that are undefined are left out,
\* dates become their ISO string; the text is never parsed back by sync()
OptionalFields == {"description", "server_id", "last_synced_at"}
Serialize(obj) ==
  [f \in {g \in DOMAIN obj : g \notin OptionalFields \/ obj[g] # None} |-> obj[f]]

\* syncService.ts:96-108: the row addToSyncQueue inserts
QueueRow(taskId, operation, obj, t) ==
  [ id |-> QueueId(taskId, operation, t),
    task_id |-> taskId,
    operation |-> operation,
    data |-> Serialize(obj),
    created_at |-> t,
    retry_count |-> 0,
    error_message |-> None ]

\* a storage fault may be injected while the budget lasts
MayFault(fault) == fault => budget.faults > 0
Spend(fault) == IF fault THEN [budget EXCEPT !.faults = @ - 1] ELSE budget

----------------------------------------------------------------------------
(* Initial states *)

\* the tables as createTables leaves them (database.ts:35-74)
EmptyDb == [tasks |-> [t \in {} |-> None], queue |-> {}]

\* the tables after createTask("t1") and two cycles in which updateSyncStatus
\* raised: the create item waits with retry_count 2 (syncService.ts:196-205)
RetriedDb ==
  LET obj == NewTask("t1", [title |-> Some("a"), description |-> None, completed |-> None], 0)
  IN [ tasks |-> [t \in {"t1"} |-> obj],
       queue |-> { [ QueueRow("t1", "create", obj, 0) EXCEPT
                       !.retry_count = 2, !.error_message = Some("mark_failed") ] } ]

\* the tables after createTask("t1"), a cycle that propagated it, and
\* updateTask("t1", {title: "b"}), all at time 0: the update item waits
QueuedDb ==
  LET created == NewTask("t1", [title |-> Some("a"), description |-> None, completed |-> None], 0)
      synced == [created EXCEPT !.sync_status = "synced", !.last_synced_at = Some(0)]
      obj == UpdatedTask(synced, [title |-> Some("b"), description |-> None, completed |-> None], 0)
  IN [ tasks |-> [t \in {"t1"} |-> obj],
       queue |-> { QueueRow("t1", "update", obj, 0) } ]

StartWith(b, db, cf) ==
  /\ conflict = cf
  /\ http = [p \in Engines |-> "none"]
  /\ batch = NoBatch
  /\ now = 0
  /\ tasks = db.tasks
  /\ queue = db.queue
  /\ client = [c \in Clients |-> IdleClient("none")]
  /\ sync = [p \in Engines |-> IdleSync]
  /\ attached \in BOOLEAN
  /\ db.queue # {} => attached
  /\ batchSize \in 1..MaxBatch
  /\ markedBy = [t \in TaskIds |-> None]
  /\ budget = b

Start(b, db) == StartWith(b, db, NoConflict)

Init ==
  Start([calls |-> MaxCalls, faults |-> MaxFaults, ticks |-> MaxTime], EmptyDb)

\* a version of a task as the remote authority holds it: a Task with the
\* server's id (syncService.ts:130 `srv_${item.task_id}`)
RemoteVersion(id, title, completed, t) ==
  [ NewTask(id, [title |-> Some(title), description |-> None, completed |-> Some(completed)], t)
      EXCEPT !.sync_status = "synced", !.server_id = Some(<<"srv", id>>) ]

RemoteVersions ==
  { RemoteVersion(id, title, completed, t) :
      id \in TaskIds, title \in {"a", "r"}, completed \in BOOLEAN, t \in 0..MaxStamp }

\* a version of a task as the local store holds it after a mutation
LocalVersions ==
  { NewTask(id, [title |-> Some(title), description |-> None, completed |-> Some(completed)], t) :
      id \in TaskIds, title \in {"a", "b"}, completed \in BOOLEAN, t \in 0..MaxStamp }

\* a database with or without history, while the remote authority holds no
\* version or one of its own
InitSeeded ==
  \E db \in {EmptyDb, RetriedDb} :
    \E sv \in {None} \cup { Some(v) : v \in { w \in RemoteVersions : ~w.completed } } :
      StartWith([calls |-> SeedCalls, faults |-> SeedFaults, ticks |-> SeedTime], db,
                [NoConflict EXCEPT !.server = sv])

InitConc ==
  \E db \in {EmptyDb, RetriedDb, QueuedDb} :
    Start([calls |-> ConcCalls, faults |-> ConcFaults, ticks |-> ConcTime], db)

----------------------------------------------------------------------------
(* TaskService *)

\* after the task row is written: go on to addToSyncQueue when a sync service
\* is attached (taskService.ts:88, 166, 213, 244), else return
AfterWrite(c, operation, obj) ==
  IF attached
  THEN [client[c] EXCEPT !.pc = "enqueue", !.op = operation, !.obj = Some(obj)]
  ELSE IdleClient("ok")

\* a create that takes every existing row for a soft-deleted one
CreateBeginOverwriting(c, raw, data) ==
  /\ client[c].pc = "idle"
  /\ budget.calls > 0
  /\ budget' = [budget EXCEPT !.calls = @ - 1]
  /\ client' = [client EXCEPT ![c] =
       IF ~ValidId(raw) THEN IdleClient("invalid")
       ELSE [ IdleClient("none") EXCEPT
                !.pc = IF HasRow(Trim(raw.val)) THEN "restore_write" ELSE "create_write",
                !.call = "createTask",
                !.id = Trim(raw.val), !.data = data ]]
  /\ UNCHANGED <<now, tasks, queue, sync, attached, batchSize, markedBy, conflict, http, batch>>

\* taskService.ts:14-39: validation and SELECT * FROM tasks WHERE id = ?
CreateBegin(c, raw, data) ==
  /\ client[c].pc = "idle"
  /\ budget.calls > 0
  /\ budget' = [budget EXCEPT !.calls = @ - 1]
  /\ client' = [client EXCEPT ![c] =
       IF ~ValidId(raw) THEN IdleClient("invalid")
       ELSE IF HasRow(Trim(raw.val)) /\ ~tasks[Trim(raw.val)].is_deleted
            THEN IdleClient("duplicate")
       ELSE [ IdleClient("none") EXCEPT
                !.pc = IF HasRow(Trim(raw.val)) THEN "restore_write" ELSE "create_write",
                !.call = "createTask",
                !.id = Trim(raw.val), !.data = data ]]
  /\ UNCHANGED <<now, tasks, queue, sync, attached, batchSize, markedBy, conflict, http, batch>>

\* taskService.ts:41-85: INSERT INTO tasks; the primary key rejects a second row
CreateWrite(c) ==
  /\ client[c].pc = "create_write"
  /\ LET id == client[c].id
         obj == NewTask(id, client[c].data, now)
     IN IF HasRow(id)
        THEN /\ client' = [client EXCEPT ![c] = IdleClient("storage_fault")]
             /\ UNCHANGED <<tasks, markedBy>>
        ELSE /\ tasks' = PutRow(id, obj)
             /\ markedBy' = [markedBy EXCEPT ![id] = None]
             /\ client' = [client EXCEPT ![c] = AfterWrite(c, "create", obj)]
  /\ UNCHANGED <<now, queue, sync, attached, batchSize, budget, conflict, http, batch>>

\* a restore that clears is_deleted and keeps what the row had
RestoreWriteKeeping(c) ==
  /\ client[c].pc = "restore_write"
  /\ LET id == client[c].id
         obj == [ UpdatedTask(tasks[id], client[c].data, now) EXCEPT !.is_deleted = FALSE ]
     IN /\ tasks' = PutRow(id, obj)
        /\ markedBy' = [markedBy EXCEPT ![id] = None]
        /\ client' = [client EXCEPT ![c] = AfterWrite(c, "create", obj)]
  /\ UNCHANGED <<now, queue, sync, attached, batchSize, budget, conflict, http, batch>>

\* taskService.ts:116-163 restoreAndUpdateTask: UPDATE tasks SET <all> WHERE id = ?
RestoreWrite(c) ==
  /\ client[c].pc = "restore_write"
  /\ LET id == client[c].id
         obj == NewTask(id, client[c].data, now)
     IN /\ tasks' = PutRow(id, obj)
        /\ markedBy' = [markedBy EXCEPT ![id] = None]
        /\ client' = [client EXCEPT ![c] = AfterWrite(c, "create", obj)]
  /\ UNCHANGED <<now, queue, sync, attached, batchSize, budget, conflict, http, batch>>

\* an update that finds soft-deleted rows too
UpdateBeginAnyRow(c, id, upd) ==
  /\ client[c].pc = "idle"
  /\ budget.calls > 0
  /\ budget' = [budget EXCEPT !.calls = @ - 1]
  /\ client' = [client EXCEPT ![c] =
       IF HasRow(id)
       THEN [ IdleClient("none") EXCEPT !.pc = "update_write", !.call = "updateTask", !.id = id,
                !.data = upd, !.existing = Some(tasks[id]) ]
       ELSE IdleClient("notfound")]
  /\ UNCHANGED <<now, tasks, queue, sync, attached, batchSize, markedBy, conflict, http, batch>>

\* taskService.ts:178-183 and 257-273: getTask, a row that is not deleted
UpdateBegin(c, id, upd) ==
  /\ client[c].pc = "idle"
  /\ budget.calls > 0
  /\ budget' = [budget EXCEPT !.calls = @ - 1]
  /\ client' = [client EXCEPT ![c] =
       IF HasRow(id) /\ ~tasks[id].is_deleted
       THEN [ IdleClient("none") EXCEPT !.pc = "update_write", !.call = "updateTask", !.id = id,
                !.data = upd, !.existing = Some(tasks[id]) ]
       ELSE IdleClient("notfound")]
  /\ UNCHANGED <<now, tasks, queue, sync, attached, batchSize, markedBy, conflict, http, batch>>

\* taskService.ts:185-210: UPDATE tasks SET title, description, completed,
\* updated_at, sync_status WHERE id = ? AND is_deleted = 0
UpdateWrite(c) ==
  /\ client[c].pc = "update_write"
  /\ LET id == client[c].id
         obj == UpdatedTask(client[c].existing[1], client[c].data, now)
     IN /\ IF tasks[id].is_deleted
           THEN UNCHANGED <<tasks, markedBy>>
           ELSE /\ tasks' = PutRow(id, [ tasks[id] EXCEPT
                                 !.title = obj.title,
                                 !.description = obj.description,
                                 !.completed = obj.completed,
                                 !.updated_at = now,
                                 !.sync_status = obj.sync_status ])
                /\ markedBy' = [markedBy EXCEPT ![id] = None]
        /\ client' = [client EXCEPT ![c] = AfterWrite(c, "update", obj)]
  /\ UNCHANGED <<now, queue, sync, attached, batchSize, budget, conflict, http, batch>>

\* a delete that finds soft-deleted rows too
DeleteBeginAnyRow(c, id) ==
  /\ client[c].pc = "idle"
  /\ budget.calls > 0
  /\ budget' = [budget EXCEPT !.calls = @ - 1]
  /\ client' = [client EXCEPT ![c] =
       IF HasRow(id)
       THEN [ IdleClient("none") EXCEPT !.pc = "delete_write", !.call = "deleteTask", !.id = id,
                !.existing = Some(tasks[id]) ]
       ELSE IdleClient("false")]
  /\ UNCHANGED <<now, tasks, queue, sync, attached, batchSize, markedBy, conflict, http, batch>>

\* taskService.ts:225-230: getTask
DeleteBegin(c, id) ==
  /\ client[c].pc = "idle"
  /\ budget.calls > 0
  /\ budget' = [budget EXCEPT !.calls = @ - 1]
  /\ client' = [client EXCEPT ![c] =
       IF HasRow(id) /\ ~tasks[id].is_deleted
       THEN [ IdleClient("none") EXCEPT !.pc = "delete_write", !.call = "deleteTask", !.id = id,
                !.existing = Some(tasks[id]) ]
       ELSE IdleClient("false")]
  /\ UNCHANGED <<now, tasks, queue, sync, attached, batchSize, markedBy, conflict, http, batch>>

\* taskService.ts:232-241: UPDATE tasks SET is_deleted = 1, updated_at, sync_status
DeleteWrite(c) ==
  /\ client[c].pc = "delete_write"
  /\ LET id == client[c].id
     IN /\ tasks' = PutRow(id, [ tasks[id] EXCEPT
                           !.is_deleted = TRUE,
                           !.updated_at = now,
                           !.sync_status = LocalStatus ])
        /\ markedBy' = [markedBy EXCEPT ![id] = None]
        /\ client' = [client EXCEPT ![c] =
             AfterWrite(c, "delete", DeletedTask(client[c].existing[1], now))]
  /\ UNCHANGED <<now, queue, sync, attached, batchSize, budget, conflict, http, batch>>

\* a conversion that takes the row's id for the server's when none is stored
ConvertRowToTaskServerId(row) ==
  [ row EXCEPT
      !.description = IF @ = Some("") THEN None ELSE @,
      !.server_id = IF @ = None THEN Some(row.id) ELSE @ ]

\* taskService.ts:302-315 convertRowToTask: NULL and '' read back as undefined
ConvertRowToTask(row) ==
  [ row EXCEPT
      !.description = IF @ = Some("") THEN None ELSE @,
      !.server_id = IF @ = Some("") THEN None ELSE @ ]

\* taskService.ts:257-273: SELECT * FROM tasks WHERE id = ? AND is_deleted = 0
GetTaskResult(id) ==
  IF HasRow(id) /\ ~tasks[id].is_deleted THEN Some(ConvertRowToTask(tasks[id])) ELSE None

\* taskService.ts:257-273 getTask
GetTask(c, id) ==
  /\ client[c].pc = "idle"
  /\ budget.calls > 0
  /\ budget' = [budget EXCEPT !.calls = @ - 1]
  /\ client' = [client EXCEPT ![c] =
       [ IdleClient(IF GetTaskResult(id) = None THEN "null" ELSE "task") EXCEPT
           !.got = GetTaskResult(id) ]]
  /\ UNCHANGED <<now, tasks, queue, sync, attached, batchSize, markedBy, conflict, http, batch>>

\* a listing that forgets WHERE is_deleted = 0
ListedIdsAnyRow == DOMAIN tasks

\* taskService.ts:277-280: WHERE is_deleted = 0
ListedIds == { id \in DOMAIN tasks : ~tasks[id].is_deleted }

\* taskService.ts:277-284: the rows ORDER BY created_at DESC may come in, as ids;
\* rows of one created_at come in either order
ListOrders ==
  { s \in [1..Cardinality(ListedIds) -> ListedIds] :
      /\ \A i, j \in DOMAIN s : i # j => s[i] # s[j]
      /\ \A i, j \in DOMAIN s : i < j => tasks[s[i]].created_at >= tasks[s[j]].created_at }

\* taskService.ts:275-287 getAllTasks
GetAllTasks(c) ==
  /\ client[c].pc = "idle"
  /\ budget.calls > 0
  /\ budget' = [budget EXCEPT !.calls = @ - 1]
  /\ \E s \in ListOrders :
       client' = [client EXCEPT ![c] =
         [ IdleClient("list") EXCEPT
             !.list = [i \in DOMAIN s |-> ConvertRowToTask(tasks[s[i]])] ]]
  /\ UNCHANGED <<now, tasks, queue, sync, attached, batchSize, markedBy, conflict, http, batch>>

\* an INSERT OR REPLACE: the new row takes the place of the row with its id
InsertedOrReplaced(row, fault) ==
  IF fault THEN queue ELSE { it \in queue : it.id # row.id } \cup {row}

\* the table sync_queue after addToSyncQueue's INSERT (syncService.ts:87-117);
\* the INSERT is rejected by a storage fault or by the primary key
Inserted(row, fault) ==
  IF fault \/ HasItem(row.id) THEN queue ELSE queue \cup {row}

\* a catch that rethrows: the fault of the enqueue fails the call
EnqueueOutcomeRethrow(raised) == IF raised THEN "storage_fault" ELSE "ok"

\* taskService.ts:93-96, 170-172, 216-219, 248-251: the catch around
\* addToSyncQueue only logs, so the call returns its success result whether or
\* not the insert raised
EnqueueOutcome(raised) == "ok"

\* taskService.ts:88-102, 166-175, 213-222, 244-254: addToSyncQueue, then return
Enqueue(c, fault) ==
  /\ client[c].pc = "enqueue"
  /\ MayFault(fault)
  /\ budget' = Spend(fault)
  /\ queue' = Inserted(QueueRow(client[c].id, client[c].op, client[c].obj[1], now), fault)
  /\ client' = [client EXCEPT ![c] =
       IdleClient(EnqueueOutcome(fault \/ HasItem(QueueId(client[c].id, client[c].op, now))))]
  /\ UNCHANGED <<now, tasks, sync, attached, batchSize, markedBy, conflict, http, batch>>

\* time passes
Tick ==
  /\ budget.ticks > 0
  /\ budget' = [budget EXCEPT !.ticks = @ - 1]
  /\ now' = now + 1
  /\ UNCHANGED <<tasks, queue, client, sync, attached, batchSize, markedBy, conflict, http, batch>>

----------------------------------------------------------------------------
(* SyncService *)

\* a ceiling that is off by one
MaxRetriesOffByOne == 3 + 1

\* syncService.ts:188
MaxRetries == 3

\* a drain that puts the items never retried first
OrderKeyRetries(it) == it.retry_count

\* syncService.ts:269: ORDER BY created_at ASC
OrderKey(it) == it.created_at

Perms(S) ==
  { s \in [1..Cardinality(S) -> S] : \A i, j \in 1..Cardinality(S) : i # j => s[i] # s[j] }

\* a drain that leaves out the items that failed before
DrainOrdersUntried ==
  { s \in Perms({ it \in queue : it.retry_count = 0 }) :
      \A i, j \in 1..Len(s) : i < j => OrderKey(s[i]) <= OrderKey(s[j]) }

\* syncService.ts:264-288 getSyncQueueItems: every row of sync_queue, ordered by
\* the key; SQL leaves the order of rows with equal keys open
DrainOrders ==
  { s \in Perms(queue) : \A i, j \in 1..Len(s) : i < j => OrderKey(s[i]) <= OrderKey(s[j]) }

\* the item the inner loop is at (syncService.ts:56)
CurItem(p) == sync[p].items[sync[p].k]

\* syncService.ts:52: queueItems.slice(i, i + batchSize), as its index range
BatchOf(st) ==
  { n \in 1..Len(st.items) : st.b <= n /\ n < st.b + batchSize }

\* syncService.ts:79-84
ResultOf(st) ==
  [ success |-> st.failed = 0, synced_items |-> st.synced,
    failed_items |-> st.failed, errors |-> st.errors ]

\* an aborted cycle that counts the queue as failed
OfflineResultCounting ==
  [ success |-> FALSE, synced_items |-> 0, failed_items |-> Cardinality(queue),
    errors |-> << [task_id |-> "", operation |-> "sync",
                   error |-> "Server is not reachable"] >> ]

\* syncService.ts:21-31
OfflineResult ==
  [ success |-> FALSE, synced_items |-> 0, failed_items |-> 0,
    errors |-> << [task_id |-> "", operation |-> "connectivity",
                   error |-> "Server is not reachable"] >> ]

Finished(st) == [st EXCEPT !.pc = "done", !.err = "none", !.result = Some(ResultOf(st))]

\* the loops of syncService.ts:51 and 56 step to index n
StepTo(st, n, newBatch) ==
  IF n > Len(st.items) THEN Finished(st)
  ELSE [st EXCEPT !.pc = "mark", !.err = "none", !.k = n,
                  !.b = IF newBatch \/ n >= st.b + batchSize THEN n ELSE st.b]

\* syncService.ts:60: syncedCount++, next item
Succeeded(st) == StepTo([st EXCEPT !.synced = @ + 1], st.k + 1, FALSE)

\* syncService.ts:64-70: failedCount++, errors.push, next item
Failed(st) ==
  StepTo([st EXCEPT !.failed = @ + 1,
                    !.errors = Append(@, [ task_id |-> st.items[st.k].task_id,
                                           operation |-> st.items[st.k].operation,
                                           error |-> st.err ])],
         st.k + 1, FALSE)

\* syncService.ts:73-76: handleSyncError threw; the whole batch is counted as
\* failed and the outer loop goes on with the next batch
BatchFailed(st) ==
  StepTo([st EXCEPT !.failed = @ + Cardinality(BatchOf(st))], st.b + batchSize, TRUE)

\* a status update that touches updated_at as a local mutation does
StatusUpdatedTouching(taskId, status) ==
  IF HasRow(taskId)
  THEN PutRow(taskId, [tasks[taskId] EXCEPT !.sync_status = status,
                                             !.last_synced_at = Some(now),
                                             !.updated_at = now])
  ELSE tasks

\* syncService.ts:161-183 updateSyncStatus: UPDATE tasks SET sync_status = ?,
\* last_synced_at = ? WHERE id = ? (no caller passes serverData)
StatusUpdated(taskId, status) ==
  IF HasRow(taskId)
  THEN PutRow(taskId, [tasks[taskId] EXCEPT !.sync_status = status,
                                             !.last_synced_at = Some(now)])
  ELSE tasks

\* a removal that deletes nothing
RemovedNothing(qid) == queue

\* syncService.ts:291-300 removeFromSyncQueue: DELETE FROM sync_queue WHERE id = ?
Removed(qid) == { it \in queue : it.id # qid }

\* a record of the retry that forgets the failure reason
RetryRecordedCountOnly(qid, n, msg) ==
  { IF it.id = qid THEN [it EXCEPT !.retry_count = n] ELSE it : it \in queue }

\* syncService.ts:198-203: UPDATE sync_queue SET retry_count, error_message WHERE id
RetryRecorded(qid, n, msg) ==
  { IF it.id = qid THEN [it EXCEPT !.retry_count = n, !.error_message = Some(msg)] ELSE it
    : it \in queue }

\* syncService.ts:17-32: sync() is called and probes the server
SyncProbe(p, online) ==
  /\ sync[p].pc \in {"idle", "done"}
  /\ budget.calls > 0
  /\ budget' = [budget EXCEPT !.calls = @ - 1]
  /\ sync' = [sync EXCEPT ![p] =
       IF online THEN [IdleSync EXCEPT !.pc = "drain"]
       ELSE [IdleSync EXCEPT !.pc = "done", !.result = Some(OfflineResult)]]
  /\ UNCHANGED <<now, tasks, queue, client, attached, batchSize, markedBy, conflict, http, batch>>

\* syncService.ts:17-32: sync() is called once more by its trigger (the calls
\* of sync() are not counted)
SyncAgain(p, online) ==
  /\ sync[p].pc \in {"idle", "done"}
  /\ sync' = [sync EXCEPT ![p] =
       IF online THEN [IdleSync EXCEPT !.pc = "drain"]
       ELSE [IdleSync EXCEPT !.pc = "done", !.result = Some(OfflineResult)]]
  /\ UNCHANGED <<now, tasks, queue, client, attached, batchSize, markedBy, budget, conflict,
                 http, batch>>

\* syncService.ts:34-49: the snapshot of the queue
SyncDrain(p) ==
  /\ sync[p].pc = "drain"
  /\ \E s \in DrainOrders :
       sync' = [sync EXCEPT ![p] = StepTo([sync[p] EXCEPT !.items = s], 1, TRUE)]
  /\ UNCHANGED <<now, tasks, queue, client, attached, batchSize, markedBy, budget, conflict, http, batch>>

\* syncService.ts:58: updateSyncStatus(item.task_id, 'synced')
MarkSynced(p, fault) ==
  /\ sync[p].pc = "mark"
  /\ MayFault(fault)
  /\ budget' = Spend(fault)
  /\ IF fault
     THEN /\ sync' = [sync EXCEPT ![p].pc = "handle", ![p].err = "mark_failed"]
          /\ UNCHANGED <<tasks, markedBy>>
     ELSE /\ tasks' = StatusUpdated(CurItem(p).task_id, "synced")
          /\ markedBy' = [markedBy EXCEPT ![CurItem(p).task_id] = Some(CurItem(p).id)]
          /\ sync' = [sync EXCEPT ![p].pc = "remove"]
  /\ UNCHANGED <<now, queue, client, attached, batchSize, conflict, http, batch>>

\* syncService.ts:59-60: removeFromSyncQueue(item.id)
RemoveSynced(p, fault) ==
  /\ sync[p].pc = "remove"
  /\ MayFault(fault)
  /\ budget' = Spend(fault)
  /\ IF fault
     THEN /\ sync' = [sync EXCEPT ![p].pc = "handle", ![p].err = "remove_failed"]
          /\ UNCHANGED queue
     ELSE /\ queue' = Removed(CurItem(p).id)
          /\ sync' = [sync EXCEPT ![p] = Succeeded(sync[p])]
  /\ UNCHANGED <<now, tasks, client, attached, batchSize, markedBy, conflict, http, batch>>

\* syncService.ts:185-193: the retry ceiling is reached, updateSyncStatus(.., 'error')
HandleMarkError(p, fault) ==
  /\ sync[p].pc = "handle"
  /\ CurItem(p).retry_count + 1 >= MaxRetries
  /\ MayFault(fault)
  /\ budget' = Spend(fault)
  /\ IF fault
     THEN /\ sync' = [sync EXCEPT ![p] = BatchFailed(sync[p])]
          /\ UNCHANGED <<tasks, markedBy>>
     ELSE /\ tasks' = StatusUpdated(CurItem(p).task_id, "error")
          /\ markedBy' = [markedBy EXCEPT ![CurItem(p).task_id] = None]
          /\ sync' = [sync EXCEPT ![p].pc = "handle_remove"]
  /\ UNCHANGED <<now, queue, client, attached, batchSize, conflict, http, batch>>

\* syncService.ts:194: removeFromSyncQueue(item.id) of the permanent failure
HandleRemove(p, fault) ==
  /\ sync[p].pc = "handle_remove"
  /\ MayFault(fault)
  /\ budget' = Spend(fault)
  /\ IF fault
     THEN /\ sync' = [sync EXCEPT ![p] = BatchFailed(sync[p])]
          /\ UNCHANGED queue
     ELSE /\ queue' = Removed(CurItem(p).id)
          /\ sync' = [sync EXCEPT ![p] = Failed(sync[p])]
  /\ UNCHANGED <<now, tasks, client, attached, batchSize, markedBy, conflict, http, batch>>

\* syncService.ts:196-205: below the ceiling, the retry is recorded on the item
HandleRetry(p, fault) ==
  /\ sync[p].pc = "handle"
  /\ CurItem(p).retry_count + 1 < MaxRetries
  /\ MayFault(fault)
  /\ budget' = Spend(fault)
  /\ IF fault
     THEN /\ sync' = [sync EXCEPT ![p] = BatchFailed(sync[p])]
          /\ UNCHANGED queue
     ELSE /\ queue' = RetryRecorded(CurItem(p).id, CurItem(p).retry_count + 1, sync[p].err)
          /\ sync' = [sync EXCEPT ![p] = Failed(sync[p])]
  /\ UNCHANGED <<now, tasks, client, attached, batchSize, markedBy, conflict, http, batch>>

\* a resolution in which the local version wins a tie
ResolveConflictLocalOnTie(localTask, serverTask) ==
  IF localTask.updated_at >= serverTask.updated_at THEN localTask ELSE serverTask

\* syncService.ts:146-159 resolveConflict: last write wins on updated_at (a
\* date is its getTime() in milliseconds)
ResolveConflict(localTask, serverTask) ==
  IF localTask.updated_at > serverTask.updated_at THEN localTask ELSE serverTask

\* syncService.ts:146-159: resolveConflict is called on a pair of versions
Resolve ==
  /\ conflict.local # None
  /\ conflict.server # None
  /\ conflict.winner = None
  /\ conflict' = [conflict EXCEPT
                    !.winner = Some(ResolveConflict(conflict.local[1], conflict.server[1]))]
  /\ UNCHANGED <<now, tasks, queue, client, sync, attached, batchSize, markedBy, budget, http, batch>>

----------------------------------------------------------------------------
(* The routes of routes/sync.ts *)

\* routes/sync.ts:35: syncResult.success ? 200 : 207
StatusOf(result) == IF result.success THEN "200" ELSE "207"

\* routes/sync.ts:12-31: POST /sync probes the server; unreachable, it answers
\* 503 without calling sync()
RouteSyncBegin(p, online) ==
  /\ http[p] # "pending"
  /\ sync[p].pc \in {"idle", "done"}
  /\ budget.calls > 0
  /\ budget' = [budget EXCEPT !.calls = @ - 1]
  /\ IF online
     THEN /\ http' = [http EXCEPT ![p] = "pending"]
          /\ sync' = [sync EXCEPT ![p] = IdleSync]
     ELSE /\ http' = [http EXCEPT ![p] = "503"]
          /\ UNCHANGED sync
  /\ UNCHANGED <<now, tasks, queue, client, attached, batchSize, markedBy, conflict, batch>>

\* routes/sync.ts:32-36: sync() returned; the status of the response
RouteSyncRespond(p) ==
  /\ http[p] = "pending"
  /\ sync[p].pc = "done"
  /\ http' = [http EXCEPT ![p] = StatusOf(sync[p].result[1])]
  /\ UNCHANGED <<now, tasks, queue, client, sync, attached, batchSize, markedBy, conflict,
                 batch, budget>>

\* routes/sync.ts:12-53: the request of p, with the sync() call it makes
RouteStep(p) ==
  \/ \E online \in BOOLEAN : RouteSyncBegin(p, online)
  \/ http[p] = "pending" /\ sync[p].pc = "idle"
       /\ \E online \in BOOLEAN : SyncProbe(p, online)
  \/ SyncDrain(p)
  \/ \E fault \in BOOLEAN : MarkSynced(p, fault)
  \/ \E fault \in BOOLEAN : RemoveSynced(p, fault)
  \/ \E fault \in BOOLEAN : HandleMarkError(p, fault)
  \/ \E fault \in BOOLEAN : HandleRemove(p, fault)
  \/ \E fault \in BOOLEAN : HandleRetry(p, fault)
  \/ RouteSyncRespond(p)

\* an element of items that is the JSON value null: it has no field at all
NullItem ==
  [kind |-> "null", id |-> None, task_id |-> None, operation |-> None, data |-> None]

\* the items a POST /batch request may carry: null, or an object with each
\* field present (truthy), missing, or, for id, the empty string
BatchItems ==
  {NullItem} \cup
  [ kind : {"object"},
    id : {None, Some(""), Some("q1")},
    task_id : {None, Some("t1"), Some("t2")},
    operation : {None, Some("create"), Some("update"), Some("delete"), Some("merge")},
    data : {None, Some("d1")} ]

\* the bodies of a POST /batch request: items missing, not an array, or an array
BatchBodies ==
  { [kind |-> k, items |-> <<>>] : k \in {"missing", "notarray"} }
    \cup { [kind |-> "array", items |-> s] :
             s \in UNION { [1..n -> BatchItems] : n \in 0..MaxItems } }

\* !v of JavaScript for an optional string: undefined and '' are falsy
Falsy(v) == v = None \/ v = Some("")

\* routes/sync.ts:115
ValidOperations == {"create", "update", "delete"}

\* routes/sync.ts:109-113: a required field of the item is missing
MissingField(item) ==
  Falsy(item.id) \/ Falsy(item.task_id) \/ Falsy(item.operation) \/ Falsy(item.data)

\* routes/sync.ts:107-121: the item does not pass the validation loop; reading
\* item.id of a null item throws a TypeError
BadItem(item) ==
  \/ item.kind = "null"
  \/ MissingField(item)
  \/ item.operation[1] \notin ValidOperations

\* routes/sync.ts:77-162: the response of POST /batch to a body
BatchResponse(body) ==
  IF body.kind # "array"
  THEN [status |-> "400", error |-> "items_required", at |-> 0, processed_items |-> <<>>]
  ELSE IF Len(body.items) = 0
  THEN [status |-> "400", error |-> "items_empty", at |-> 0, processed_items |-> <<>>]
  ELSE IF \E i \in 1..Len(body.items) : BadItem(body.items[i])
  THEN LET i == CHOOSE j \in 1..Len(body.items) :
                  /\ BadItem(body.items[j])
                  /\ \A h \in 1..(j - 1) : ~BadItem(body.items[h])
       IN IF body.items[i].kind = "null"
          THEN [ status |-> "500", error |-> "processing_failed", at |-> i,
                 processed_items |-> <<>> ]
          ELSE [ status |-> "400",
                 error |-> IF MissingField(body.items[i]) THEN "missing_fields"
                           ELSE "invalid_operation",
                 at |-> i, processed_items |-> <<>> ]
  ELSE [ status |-> "200", error |-> "none", at |-> 0,
         processed_items |->
           [ i \in 1..Len(body.items) |->
               [ client_id |-> body.items[i].task_id[1],
                 server_id |-> <<"srv", body.items[i].task_id[1], now>>,
                 status |-> "success",
                 resolved_data |-> body.items[i].data[1] ] ] ]

\* routes/sync.ts:77-162: POST /batch answers the request
PostBatch ==
  /\ batch.request # None
  /\ batch.response = None
  /\ batch' = [batch EXCEPT !.response = Some(BatchResponse(batch.request[1]))]
  /\ UNCHANGED <<now, tasks, queue, client, sync, attached, batchSize, markedBy, conflict,
                 http, budget>>

----------------------------------------------------------------------------

ClientStep(c) ==
  \/ \E raw \in RawIds, data \in CreateData : CreateBegin(c, raw, data)
  \/ CreateWrite(c)
  \/ RestoreWrite(c)
  \/ \E id \in TaskIds, upd \in Updates : UpdateBegin(c, id, upd)
  \/ UpdateWrite(c)
  \/ \E id \in TaskIds : DeleteBegin(c, id)
  \/ DeleteWrite(c)
  \/ \E fault \in BOOLEAN : Enqueue(c, fault)
  \/ \E id \in TaskIds : GetTask(c, id)

SyncStep(p) ==
  \/ \E online \in BOOLEAN : SyncProbe(p, online)
  \/ SyncDrain(p)
  \/ \E fault \in BOOLEAN : MarkSynced(p, fault)
  \/ \E fault \in BOOLEAN : RemoveSynced(p, fault)
  \/ \E fault \in BOOLEAN : HandleMarkError(p, fault)
  \/ \E fault \in BOOLEAN : HandleRemove(p, fault)
  \/ \E fault \in BOOLEAN : HandleRetry(p, fault)

\* no call of TaskService or SyncService is in flight, c and p aside
Quiet(c, p) ==
  /\ \A d \in Clients \ {c} : client[d].pc = "idle"
  /\ \A q \in Engines \ {p} : sync[q].pc \in {"idle", "done"}

\* the calls run one at a time, each to its end
Next ==
  \/ Tick
  \/ \E c \in {"c1"} : Quiet(c, "none") /\ ClientStep(c)
  \/ \E p \in {"s1"} : Quiet("none", p) /\ SyncStep(p)

Spec == Init /\ [][Next]_vars

SpecSeeded == InitSeeded /\ [][Next]_vars

\* the calls of TaskService on two tasks, getAllTasks among them
ReadStep(c) ==
  \/ \E id \in ReadIds, data \in CreateData : CreateBegin(c, StrId(id), data)
  \/ CreateWrite(c)
  \/ RestoreWrite(c)
  \/ \E id \in ReadIds, upd \in Updates : UpdateBegin(c, id, upd)
  \/ UpdateWrite(c)
  \/ \E id \in ReadIds : DeleteBegin(c, id)
  \/ DeleteWrite(c)
  \/ \E fault \in BOOLEAN : Enqueue(c, fault)
  \/ \E id \in ReadIds : GetTask(c, id)
  \/ GetAllTasks(c)

InitReads ==
  /\ conflict = NoConflict
  /\ http = [p \in Engines |-> "none"]
  /\ batch = NoBatch
  /\ now = 0
  /\ \E db \in {EmptyDb, RetriedDb} : tasks = db.tasks /\ queue = db.queue
  /\ client = [c \in Clients |-> IdleClient("none")]
  /\ sync = [p \in Engines |-> IdleSync]
  /\ attached = TRUE
  /\ batchSize = 1
  /\ markedBy = [t \in ReadIds |-> None]
  /\ budget = [calls |-> ReadCalls, faults |-> ReadFaults, ticks |-> ReadTime]

NextReads ==
  \/ Tick
  \/ \E c \in {"c1"} : Quiet(c, "none") /\ ReadStep(c)
  \/ \E p \in {"s1"} : Quiet("none", p) /\ SyncStep(p)

SpecReads == InitReads /\ [][NextReads]_vars

\* the calls of TaskService and the POST /sync requests, one at a time
InitRoute ==
  \E db \in {EmptyDb, RetriedDb} :
    Start([calls |-> RouteCalls, faults |-> RouteFaults, ticks |-> RouteTime], db)

NextRoute ==
  \/ Tick
  \/ \E c \in {"c1"} : Quiet(c, "none") /\ http["s1"] # "pending" /\ ClientStep(c)
  \/ \E p \in {"s1"} : Quiet("none", p) /\ RouteStep(p)

SpecRoute == InitRoute /\ [][NextRoute]_vars

\* POST /batch on every body
InitBatch ==
  /\ conflict = NoConflict
  /\ http = [p \in Engines |-> "none"]
  /\ batch \in { [request |-> Some(body), response |-> None] : body \in BatchBodies }
  /\ now = 0
  /\ tasks = EmptyDb.tasks
  /\ queue = EmptyDb.queue
  /\ client = [c \in Clients |-> IdleClient("none")]
  /\ sync = [p \in Engines |-> IdleSync]
  /\ attached = TRUE
  /\ batchSize = 1
  /\ markedBy = [t \in TaskIds |-> None]
  /\ budget = [calls |-> 0, faults |-> 0, ticks |-> 0]

NextBatch == PostBatch

SpecBatch == InitBatch /\ [][NextBatch]_vars

\* resolveConflict on every pair of a local and a remote version
InitResolve ==
  \E l \in LocalVersions, r \in RemoteVersions :
    StartWith([calls |-> 0, faults |-> 0, ticks |-> 0], EmptyDb,
              [local |-> Some(l), server |-> Some(r), winner |-> None])

NextResolve == Resolve

SpecResolve == InitResolve /\ [][NextResolve]_vars

\* the calls overlap: every await is a point where another call may run
\* a call of TaskService that has begun goes on to its end
CallStep(c) ==
  \/ CreateWrite(c)
  \/ RestoreWrite(c)
  \/ UpdateWrite(c)
  \/ DeleteWrite(c)
  \/ \E fault \in BOOLEAN : Enqueue(c, fault)

\* a sync cycle that passed the probe goes on to its return
RunStep(p) ==
  \/ SyncDrain(p)
  \/ \E fault \in BOOLEAN : MarkSynced(p, fault)
  \/ \E fault \in BOOLEAN : RemoveSynced(p, fault)
  \/ \E fault \in BOOLEAN : HandleMarkError(p, fault)
  \/ \E fault \in BOOLEAN : HandleRemove(p, fault)
  \/ \E fault \in BOOLEAN : HandleRetry(p, fault)

\* a few calls of TaskService while sync() is triggered again and again
InitLive ==
  \E db \in {EmptyDb, RetriedDb, QueuedDb} :
    Start([calls |-> LiveCalls, faults |-> LiveFaults, ticks |-> LiveTime], db)

NextLive ==
  \/ Tick
  \/ \E c \in {"c1"} : Quiet(c, "none") /\ ClientStep(c)
  \/ \E p \in {"s1"} : Quiet("none", p) /\ \E online \in BOOLEAN : SyncAgain(p, online)
  \/ \E p \in {"s1"} : Quiet("none", p) /\ RunStep(p)

\* every await resumes; sync() keeps being triggered and the probe reports the
\* server reachable again and again
FairLive ==
  /\ WF_vars(Quiet("c1", "none") /\ CallStep("c1"))
  /\ WF_vars(Quiet("none", "s1") /\ RunStep("s1"))
  /\ WF_vars(Quiet("none", "s1") /\ SyncAgain("s1", TRUE))

SpecLive == InitLive /\ [][NextLive]_vars /\ FairLive

NextConc ==
  \/ Tick
  \/ \E c \in Clients : ClientStep(c)
  \/ \E p \in Engines : SyncStep(p)

SpecConc == InitConc /\ [][NextConc]_vars

----------------------------------------------------------------------------
(* Steps, as seen from a pair of states *)

WritePcs == {"create_write", "restore_write", "update_write", "delete_write"}
Processing == {"mark", "remove", "handle", "handle_remove"}

\* a TaskService call of c returns with this step
Returns(c) == client[c].pc # "idle" /\ client'[c].pc = "idle"

\* c executes the statement that writes its task row
WriteStep(c) == client[c].pc \in WritePcs /\ client'[c] # client[c]

\* engine p executes updateSyncStatus on task t
StatusStep(p, t) ==
  /\ sync[p].pc \in {"mark", "handle"}
  /\ sync'[p].pc \in {"remove", "handle_remove"}
  /\ CurItem(p).task_id = t

\* the rows of a queue table with this primary key
RowsOf(q, qid) == { it \in q : it.id = qid }

\* the operation each call hands to addToSyncQueue (taskService.ts:91, 168, 215, 247)
OperationOf(call) ==
  CASE call = "createTask" -> "create"
    [] call = "updateTask" -> "update"
    [] call = "deleteTask" -> "delete"

----------------------------------------------------------------------------
(* C1: a successful createTask, updateTask or deleteTask leaves the stored
   sync_status of its task 'pending', at the statement that writes the row and
   when the call returns; and a sync_status becomes 'synced' or 'error' only in
   a step of the sync cycle that runs updateSyncStatus on that task, never in
   a step of a TaskService call. *)
C1_PendingAfterMutation ==
  [][ /\ \A c \in Clients :
           /\ (WriteStep(c) /\ client'[c].result # "storage_fault")
                => tasks'[client[c].id].sync_status = "pending"
           /\ (Returns(c) /\ client'[c].result = "ok")
                => tasks'[client[c].id].sync_status = "pending"
      /\ \A t \in DOMAIN tasks :
           (tasks'[t].sync_status \in {"synced", "error"}
              /\ tasks'[t].sync_status # tasks[t].sync_status)
             => /\ client' = client
                /\ \E p \in Engines : StatusStep(p, t) ]_vars

\* a task that was synced before is pending again after a mutation returned
C1_Witness ==
  \E c \in Clients, t \in DOMAIN tasks :
    /\ client[c].pc = "idle" /\ client[c].result = "ok"
    /\ tasks[t].sync_status = "pending"
    /\ tasks[t].last_synced_at # None

----------------------------------------------------------------------------
(* C2: with cycles that run one after the other, the retry_count a cycle reads
   for an item is the number of cycles in which its propagation failed so far;
   a failure recorded for an item that failed twice before (the third failure)
   marks its task 'error' and removes the item; a failure recorded before that
   leaves the item queued with one more retry; and an item that failed twice
   and succeeds in the third cycle is removed with its task 'synced'. *)
C2_ThirdFailureIsPermanent ==
  [][ \A p \in Engines :
        sync[p].pc \in Processing =>
          LET it == CurItem(p)
              recorded == sync[p].pc \in {"handle", "handle_remove"}
                            /\ sync'[p].failed = sync[p].failed + 1
                            /\ budget'.faults = budget.faults
          IN /\ \A row \in RowsOf(queue, it.id) : row.retry_count = it.retry_count
             /\ (sync[p].pc = "handle" /\ it.retry_count = 2
                   /\ sync'[p] # sync[p] /\ budget'.faults = budget.faults)
                  => /\ sync'[p].pc = "handle_remove"
                     /\ tasks'[it.task_id].sync_status = "error"
             /\ (recorded /\ it.retry_count = 2)
                  => /\ RowsOf(queue', it.id) = {}
                     /\ tasks'[it.task_id].sync_status = "error"
             /\ (recorded /\ it.retry_count < 2)
                  => \E row \in RowsOf(queue', it.id) :
                       row.retry_count = it.retry_count + 1
             /\ (sync[p].pc = "remove" /\ it.retry_count = 2
                   /\ sync'[p].synced = sync[p].synced + 1)
                  => /\ RowsOf(queue', it.id) = {}
                     /\ tasks'[it.task_id].sync_status = "synced" ]_vars

\* three faults were spent on one item in three cycles: it is gone, its task 'error'
C2_Witness ==
  \E p \in Engines, t \in DOMAIN tasks :
    /\ sync[p].pc = "done"
    /\ sync[p].result # None
    /\ Len(sync[p].items) = 1
    /\ sync[p].items[1].retry_count = 2
    /\ sync[p].result[1].failed_items = 1
    /\ tasks[t].sync_status = "error"
    /\ queue = {}
    /\ budget.faults = MaxFaults - 3

----------------------------------------------------------------------------
(* C3: a sync() whose connectivity probe reports unreachable changes no queue
   row (retry_count and error_message included) and no task row, and returns
   success = false, synced_items = 0, failed_items = 0 and exactly one error,
   whose operation is 'connectivity'. *)
C3_OfflineTouchesNothing ==
  [][ \A p \in Engines :
        (sync[p].pc \in {"idle", "done"} /\ sync'[p] # sync[p] /\ sync'[p].pc # "drain")
          => /\ queue' = queue
             /\ tasks' = tasks
             /\ sync'[p].pc = "done"
             /\ sync'[p].result # None
             /\ LET r == sync'[p].result[1]
                IN /\ r.success = FALSE
                   /\ r.synced_items = 0
                   /\ r.failed_items = 0
                   /\ Len(r.errors) = 1
                   /\ r.errors[1].operation = "connectivity" ]_vars

\* an aborted cycle with an item waiting for its retry in the queue
C3_Witness ==
  \E p \in Engines :
    /\ sync[p].pc = "done"
    /\ sync[p].result = Some(OfflineResult)
    /\ \E it \in queue : it.retry_count > 0 /\ it.error_message # None

----------------------------------------------------------------------------
(* C4: when a cycle that drained N >= 1 items ends with every propagation
   succeeded (synced_items = N) and no local mutation ran during it, the queue
   is empty and every task of a drained item is 'synced' with last_synced_at
   set. *)
C4_FullSuccessDrainsQueue ==
  [][ \A p \in Engines :
        (sync[p].pc \in Processing /\ sync'[p].pc = "done"
           /\ sync'[p].result[1].synced_items = Len(sync[p].items))
          => /\ queue' = {}
             /\ \A n \in 1..Len(sync[p].items) :
                  /\ tasks'[sync[p].items[n].task_id].sync_status = "synced"
                  /\ tasks'[sync[p].items[n].task_id].last_synced_at # None ]_vars

\* a cycle drained two items and synced both
C4_Witness ==
  \E p \in Engines :
    /\ sync[p].pc = "done"
    /\ Len(sync[p].items) >= 2
    /\ sync[p].result = Some([ success |-> TRUE, synced_items |-> Len(sync[p].items),
                               failed_items |-> 0, errors |-> <<>> ])
    /\ queue = {}

----------------------------------------------------------------------------
(* C5: the items of a cycle are in ascending order of their enqueue time
   (created_at) and the cycle goes through them front to back: an item with an
   earlier enqueue time is never behind a later one, so the create of a task
   enqueued before its update is processed first, whatever the retry_counts. *)
C5_DrainIsFifo ==
  [][ \A p \in Engines :
        /\ \A i, j \in 1..Len(sync'[p].items) :
             sync'[p].items[i].created_at < sync'[p].items[j].created_at => i < j
        /\ (sync[p].pc \in Processing /\ sync'[p].pc \in Processing)
             => sync'[p].k >= sync[p].k ]_vars

\* a cycle holds a create that was retried and a later update that was not,
\* and is at the update
C5_Witness ==
  \E p \in Engines :
    /\ sync[p].pc \in Processing
    /\ Len(sync[p].items) = 2
    /\ sync[p].k = 2
    /\ sync[p].items[1].operation = "create"
    /\ sync[p].items[1].retry_count > 0
    /\ sync[p].items[2].operation = "update"
    /\ sync[p].items[2].retry_count = 0
    /\ sync[p].items[1].task_id = sync[p].items[2].task_id

----------------------------------------------------------------------------
(* C6: marking a task 'synced' and removing the queue item that did it are one
   unit: outside the moment between the two statements, no state has a task
   'synced', last marked by an item, with that item still in the queue. *)
C6_SyncedAndRemovedTogether ==
  \A it \in queue :
    (tasks[it.task_id].sync_status = "synced" /\ markedBy[it.task_id] = Some(it.id))
      => \E p \in Engines : sync[p].pc = "remove" /\ CurItem(p).id = it.id

----------------------------------------------------------------------------
(* C7: at most one sync cycle runs at a time: no two calls of sync() are both
   in their loop holding the same queue item in their snapshots. *)
C7_OneCycleAtATime ==
  \A p, q \in Engines :
    (p # q /\ sync[p].pc \in Processing /\ sync[q].pc \in Processing)
      => \A i \in 1..Len(sync[p].items), j \in 1..Len(sync[q].items) :
           sync[p].items[i].id # sync[q].items[j].id

----------------------------------------------------------------------------
(* C8: whenever no sync cycle is in progress, every task that still has an item
   in the queue has sync_status 'pending'. *)
C8_QueuedMeansPending ==
  (\A p \in Engines : sync[p].pc \in {"idle", "done"})
    => \A it \in queue : tasks[it.task_id].sync_status = "pending"

----------------------------------------------------------------------------
(* C9: every enqueue on which the storage raises no fault stores its item under
   an id of its own: the queue grows by one row, also when an item of the same
   task and operation was enqueued at the same clock value. *)
C9_EnqueueIdsNeverCollide ==
  [][ \A c \in Clients :
        (client[c].pc = "enqueue" /\ client'[c].pc = "idle"
           /\ budget'.faults = budget.faults)
          => Cardinality(queue') = Cardinality(queue) + 1 ]_vars

----------------------------------------------------------------------------
(* C10: with a sync service attached, the write of a createTask, updateTask or
   deleteTask is followed by one enqueue; an enqueue that does not raise adds
   exactly one row, of the task, with the operation of the call and
   retry_count 0; an enqueue that raises (a storage fault, a rejected id) adds
   nothing; either way the task row stays as written and the call returns its
   success result. *)
C10_EnqueueIsBestEffort ==
  [][ \A c \in Clients :
        /\ (WriteStep(c) /\ attached /\ client'[c].result # "storage_fault")
             => client'[c].pc = "enqueue"
        /\ (client[c].pc = "enqueue" /\ client'[c] # client[c])
             => LET raised == budget'.faults # budget.faults
                                \/ HasItem(QueueId(client[c].id, client[c].op, now))
                IN /\ client'[c].pc = "idle"
                   /\ client'[c].result = "ok"
                   /\ tasks' = tasks
                   /\ tasks[client[c].id].sync_status = "pending"
                   /\ client[c].call = "deleteTask" => tasks[client[c].id].is_deleted
                   /\ raised => queue' = queue
                   /\ ~raised =>
                        /\ queue \subseteq queue'
                        /\ Cardinality(queue' \ queue) = 1
                        /\ \A it \in queue' \ queue :
                             /\ it.task_id = client[c].id
                             /\ it.operation = OperationOf(client[c].call)
                             /\ it.retry_count = 0 ]_vars

\* a mutation returned its success result although its enqueue raised: the row
\* is written and the queue holds nothing for it
C10_Witness ==
  \E c \in Clients, t \in DOMAIN tasks :
    /\ attached
    /\ client[c].pc = "idle" /\ client[c].result = "ok"
    /\ tasks[t].sync_status = "pending"
    /\ queue = {}
    /\ budget.faults = MaxFaults - 1
    /\ \A p \in Engines : sync[p].pc = "idle"

----------------------------------------------------------------------------
(* C11: a task marked 'error' by a permanent failure keeps sync_status 'error'
   through every step that is not the write of a local mutation, so no step of
   a sync cycle turns it to 'synced'; and when the handling of the permanent
   failure ends, the failed item is no longer in the queue, so no later cycle
   retries it. *)
C11_PermanentErrorIsSticky ==
  [][ /\ \A t \in DOMAIN tasks :
           (tasks[t].sync_status = "error" /\ \A c \in Clients : ~WriteStep(c))
             => tasks'[t].sync_status = "error"
      /\ \A p \in Engines :
           (sync[p].pc = "handle_remove" /\ sync'[p] # sync[p])
             => RowsOf(queue', CurItem(p).id) = {} ]_vars

----------------------------------------------------------------------------
\* the task with this id is stored and not soft-deleted
Active(id) == HasRow(id) /\ ~tasks[id].is_deleted

(* C12: a createTask whose (valid, trimmed) id is the id of a stored task that
   is not soft-deleted returns the duplicate-id error at once: it writes no
   task row, changes no queue row and starts no write. *)
C12_DuplicateCreateRejected ==
  [][ \A c \in Clients, raw \in RawIds, data \in CreateData :
        (CreateBegin(c, raw, data) /\ ValidId(raw) /\ Active(Trim(raw.val)))
          => /\ client'[c].pc = "idle"
             /\ client'[c].result = "duplicate"
             /\ tasks' = tasks
             /\ queue' = queue ]_vars

\* a create was rejected as a duplicate of a task that was updated before
C12_Witness ==
  \E c \in Clients, t \in DOMAIN tasks :
    /\ client[c].pc = "idle" /\ client[c].result = "duplicate"
    /\ ~tasks[t].is_deleted
    /\ tasks[t].title = "b"
    /\ \E it \in queue : it.operation = "update"

----------------------------------------------------------------------------
(* C13: a createTask on the id of a soft-deleted task rewrites the row in full:
   title, description and completed are the new values or their defaults,
   created_at and updated_at are the time of the restore, is_deleted is
   cleared, sync_status is 'pending', server_id and last_synced_at are empty,
   whatever the row held before; and with a sync service attached the call
   goes on to enqueue a 'create' operation carrying the restored task. *)
C13_RestoreOverwrites ==
  [][ \A c \in Clients :
        /\ \A raw \in RawIds, data \in CreateData :
             (CreateBegin(c, raw, data) /\ ValidId(raw) /\ HasRow(Trim(raw.val))
                /\ tasks[Trim(raw.val)].is_deleted)
               => client'[c].pc = "restore_write"
        /\ RestoreWrite(c) =>
             LET d == client[c].data
                 r == tasks'[client[c].id]
             IN /\ r.id = client[c].id
                /\ r.title = IF d.title = None THEN "" ELSE d.title[1]
                /\ r.description = d.description
                /\ r.completed = IF d.completed = None THEN FALSE ELSE d.completed[1]
                /\ r.created_at = now
                /\ r.updated_at = now
                /\ r.is_deleted = FALSE
                /\ r.sync_status = "pending"
                /\ r.server_id = None
                /\ r.last_synced_at = None
                /\ attached => /\ client'[c].pc = "enqueue"
                               /\ client'[c].op = "create"
                               /\ client'[c].obj = Some(r) ]_vars

\* a task created at 0, synced and deleted was restored at 1 with other values:
\* the delete item still shows what the row held
C13_Witness ==
  \E t \in DOMAIN tasks, it \in queue :
    /\ it.task_id = t /\ it.operation = "delete"
    /\ it.data.title = "a" /\ it.data.created_at = 0
    /\ "last_synced_at" \in DOMAIN it.data
    /\ tasks[t].title = "" /\ tasks[t].description = Some("d") /\ tasks[t].completed
    /\ tasks[t].created_at = 1
    /\ tasks[t].last_synced_at = None
    /\ ~tasks[t].is_deleted

----------------------------------------------------------------------------
(* C14: deleteTask on a stored task that is not soft-deleted keeps the row,
   sets is_deleted on it and returns true; deleteTask on a task that is
   already soft-deleted returns false at once and changes neither the task row
   nor the queue. *)
C14_SecondDeleteIsNoOp ==
  [][ \A c \in Clients :
        /\ \A id \in TaskIds :
             DeleteBegin(c, id) =>
               IF Active(id)
               THEN client'[c].pc = "delete_write"
               ELSE /\ client'[c].pc = "idle"
                    /\ client'[c].result = "false"
                    /\ tasks' = tasks
                    /\ queue' = queue
        /\ DeleteWrite(c) =>
             /\ DOMAIN tasks' = DOMAIN tasks
             /\ tasks'[client[c].id].is_deleted
             /\ tasks'[client[c].id].title = tasks[client[c].id].title
             /\ tasks'[client[c].id].created_at = tasks[client[c].id].created_at
        /\ (Returns(c) /\ client[c].call = "deleteTask")
             => /\ client'[c].result = "ok"
                /\ HasRow(client[c].id)
                /\ tasks'[client[c].id].is_deleted ]_vars

\* a second delete returned false: the row is kept, soft-deleted, and the queue
\* holds the one delete item of the first
C14_Witness ==
  \E c \in Clients, t \in DOMAIN tasks :
    /\ client[c].pc = "idle" /\ client[c].result = "false"
    /\ tasks[t].is_deleted
    /\ Cardinality({ it \in queue : it.operation = "delete" }) = 1

----------------------------------------------------------------------------
(* C15: updateTask on an id with no stored task, or with a soft-deleted one,
   returns not-found at once, writes no task row and adds no queue item; and
   no write of an updateTask changes is_deleted. *)
C15_UpdateNeverResurrects ==
  [][ \A c \in Clients :
        /\ \A id \in TaskIds, upd \in Updates :
             (UpdateBegin(c, id, upd) /\ ~Active(id))
               => /\ client'[c].pc = "idle"
                  /\ client'[c].result = "notfound"
                  /\ tasks' = tasks
                  /\ queue' = queue
        /\ UpdateWrite(c) =>
             tasks'[client[c].id].is_deleted = tasks[client[c].id].is_deleted ]_vars

\* an update of a soft-deleted task returned not-found and the row is still
\* soft-deleted
C15_Witness ==
  \E c \in Clients, t \in DOMAIN tasks :
    /\ client[c].pc = "idle" /\ client[c].result = "notfound"
    /\ tasks[t].is_deleted

----------------------------------------------------------------------------
(* C16: in the state a createTask returns its task in (a new row or a restored
   one, whatever the valid input), getTask on the id of that task finds it and
   gives a task with sync_status 'pending' and no server_id; and a getTask of
   a stored, not soft-deleted task returns that task with the sync_status and
   server_id of its row. *)
C16_CreateThenGet ==
  [][ \A c \in Clients :
        /\ \A id \in TaskIds :
             (Returns(c) /\ client[c].call = "createTask" /\ client[c].id = id
                /\ client'[c].result = "ok")
               => LET g == GetTaskResult(id)'
                  IN /\ g # None
                     /\ g[1].id = id
                     /\ g[1].sync_status = "pending"
                     /\ g[1].server_id = None
        /\ \A id \in TaskIds :
             (GetTask(c, id) /\ Active(id))
               => /\ client'[c].result = "task"
                  /\ client'[c].got # None
                  /\ client'[c].got[1].id = id
                  /\ client'[c].got[1].sync_status = tasks[id].sync_status
                  /\ client'[c].got[1].server_id = tasks[id].server_id ]_vars

\* the second call after start was a getTask that found the task just created
C16_Witness ==
  \E c \in Clients :
    /\ budget.calls = MaxCalls - 2
    /\ client[c].pc = "idle" /\ client[c].result = "task"
    /\ client[c].got # None
    /\ client[c].got[1].sync_status = "pending"
    /\ client[c].got[1].server_id = None
    /\ client[c].got[1].completed

----------------------------------------------------------------------------
(* C17: for every pair of a local and a remote version of a task,
   resolveConflict returns the version whose updated_at is strictly greater,
   and the remote version when the two updated_at are equal. *)
C17_LastWriteWins ==
  conflict.winner # None =>
    LET l == conflict.local[1]
        r == conflict.server[1]
        w == conflict.winner[1]
    IN /\ l.updated_at > r.updated_at => w = l /\ w # r
       /\ r.updated_at > l.updated_at => w = r /\ w # l
       /\ l.updated_at = r.updated_at => w = r /\ w # l

\* a tie between versions that differ was resolved for the remote version
C17_Witness ==
  /\ conflict.winner # None
  /\ conflict.local[1].updated_at = conflict.server[1].updated_at
  /\ conflict.local[1].title # conflict.server[1].title
  /\ conflict.winner = conflict.server

----------------------------------------------------------------------------
\* the columns of a task row that hold the task itself
ContentFields ==
  {"id", "title", "description", "completed", "created_at", "updated_at", "is_deleted"}

(* C18: when the remote authority holds a version of a task and a sync cycle
   marks that task 'synced', the stored task is, in its content, the version
   that resolveConflict picks between the local row and the remote version,
   with sync_status 'synced'. *)
C18_ConflictWinnerBecomesLocal ==
  [][ \A p \in Engines, t \in DOMAIN tasks :
        (sync[p].pc = "mark" /\ sync'[p].pc = "remove" /\ CurItem(p).task_id = t
           /\ conflict.server # None /\ conflict.server[1].id = t)
          => LET w == ResolveConflict(tasks[t], conflict.server[1])
             IN /\ tasks'[t].sync_status = "synced"
                /\ \A f \in ContentFields : tasks'[t][f] = w[f] ]_vars

----------------------------------------------------------------------------
(* C19: a step of a sync cycle adds and removes no task row and leaves id,
   title, description, completed, created_at, updated_at and is_deleted of
   every row as they were: it changes sync_status, server_id and
   last_synced_at at most. *)
C19_SyncKeepsTaskContent ==
  [][ sync' # sync =>
        /\ DOMAIN tasks' = DOMAIN tasks
        /\ \A t \in DOMAIN tasks : \A f \in ContentFields : tasks'[t][f] = tasks[t][f] ]_vars

\* a cycle marked at time 1 a task that was updated at time 0 and deleted since:
\* the row is as the mutations left it
C19_Witness ==
  \E p \in Engines, t \in DOMAIN tasks :
    /\ sync[p].pc = "done"
    /\ tasks[t].sync_status = "synced"
    /\ tasks[t].last_synced_at = Some(1)
    /\ tasks[t].updated_at = 0
    /\ tasks[t].is_deleted

----------------------------------------------------------------------------
(* C20: a row of the queue keeps its id, task_id, operation, data and
   created_at from its insert to its removal: whatever step is taken, a row
   found again under its id differs in retry_count and error_message at most,
   and no id has two rows. *)
C20_QueueItemKeepsOperation ==
  [][ \A it \in queue :
        /\ Cardinality(RowsOf(queue', it.id)) <= 1
        /\ \A row \in RowsOf(queue', it.id) :
             /\ row.task_id = it.task_id
             /\ row.operation = it.operation
             /\ row.data = it.data
             /\ row.created_at = it.created_at ]_vars

\* after an update at time 1 the create item of time 0, retried once, still
\* carries the task as it was created
C20_Witness ==
  \E it \in queue, t \in DOMAIN tasks :
    /\ it.task_id = t /\ it.operation = "create"
    /\ it.retry_count = 1 /\ it.error_message # None
    /\ it.data.title = "a" /\ it.data.updated_at = 0
    /\ tasks[t].title = "b" /\ tasks[t].updated_at = 1

----------------------------------------------------------------------------
(* C21: last_synced_at is the time of the last successful propagation: a new
   row has none, and a step that sets or advances the last_synced_at of a task
   is a step that marks the task 'synced'; the 'error' mark of a permanent
   failure leaves it as it was. *)
C21_LastSyncedOnlyOnSuccess ==
  [][ /\ \A t \in DOMAIN tasks' \ DOMAIN tasks : tasks'[t].last_synced_at = None
      /\ \A t \in DOMAIN tasks :
           (tasks'[t].last_synced_at # tasks[t].last_synced_at
              /\ tasks'[t].last_synced_at # None)
             => tasks'[t].sync_status = "synced" ]_vars

----------------------------------------------------------------------------
(* C22: a new row has no server_id and a server_id is set only by a step that
   marks the task 'synced'; and when the remote authority holds the task under
   an identifier of its own, the step that marks the task 'synced' stores that
   identifier as the task's server_id. *)
C22_ServerIdSetOnSuccess ==
  [][ /\ \A t \in DOMAIN tasks' \ DOMAIN tasks : tasks'[t].server_id = None
      /\ \A t \in DOMAIN tasks :
           (tasks'[t].server_id # tasks[t].server_id /\ tasks'[t].server_id # None)
             => tasks'[t].sync_status = "synced"
      /\ \A p \in Engines, t \in DOMAIN tasks :
           (sync[p].pc = "mark" /\ sync'[p].pc = "remove" /\ CurItem(p).task_id = t
              /\ conflict.server # None /\ conflict.server[1].id = t)
             => tasks'[t].server_id = conflict.server[1].server_id ]_vars

----------------------------------------------------------------------------
(* C23: a cycle that passed the probe returns a result whose success is true
   exactly when failed_items is 0, and whose errors hold one entry per failed
   item: as many entries as failed_items counts, each naming an item of the
   cycle. *)
C23_SuccessIffNoFailure ==
  \A p \in Engines :
    (sync[p].pc = "done" /\ sync[p].result # None /\ sync[p].result # Some(OfflineResult))
      => LET r == sync[p].result[1]
         IN /\ r.success = (r.failed_items = 0)
            /\ Len(r.errors) = r.failed_items
            /\ \A e \in 1..Len(r.errors) :
                 \E n \in 1..Len(sync[p].items) :
                   /\ sync[p].items[n].task_id = r.errors[e].task_id
                   /\ sync[p].items[n].operation = r.errors[e].operation

----------------------------------------------------------------------------
(* C24: the batch size does not show in the result of a cycle.  With batches
   of one item a cycle attempts every item of its snapshot and counts it once,
   as synced or as failed; so for every batch size the cycle ends past the
   last item of its snapshot with synced_items + failed_items equal to the
   number of items, and with synced_items equal to it when all succeeded. *)
C24_BatchingIsTransparent ==
  \A p \in Engines :
    (sync[p].pc = "done" /\ sync[p].result # None /\ sync[p].result # Some(OfflineResult))
      => LET r == sync[p].result[1]
         IN /\ r.synced_items + r.failed_items = Len(sync[p].items)
            /\ sync[p].k = Len(sync[p].items)
            /\ r.failed_items = 0 => r.synced_items = Len(sync[p].items)

----------------------------------------------------------------------------
\* a row of the queue is the row a snapshot holds: the same id, task, operation,
\* data and enqueue time
SameItem(row, it) ==
  /\ row.id = it.id
  /\ row.task_id = it.task_id
  /\ row.operation = it.operation
  /\ row.data = it.data
  /\ row.created_at = it.created_at

(* C25: a running cycle works on the snapshot of its drain step: every queue
   row that a step of the cycle removes or changes (its retry_count, its
   error_message) is a row of the cycle's snapshot, so a row enqueued after
   the drain step is left alone by that cycle. *)
C25_CycleTouchesOnlyItsSnapshot ==
  [][ \A p \in Engines :
        (sync[p].pc \in Processing /\ sync'[p] # sync[p])
          => \A row \in queue \ queue' :
               \E n \in 1..Len(sync[p].items) : SameItem(row, sync[p].items[n]) ]_vars

----------------------------------------------------------------------------
(* C26: concurrent mutations of one task lose no update: the write of an
   updateTask leaves every field that its call does not name as the stored row
   has it, so two interleaved updates of different fields both show in the
   row; and of two interleaved createTask calls with the same new id, the one
   that finds the row already inserted fails with the duplicate-id error. *)
C26_NoLostUpdate ==
  [][ \A c \in Clients :
        /\ UpdateWrite(c) =>
             LET id == client[c].id
                 upd == client[c].data
             IN /\ upd.title = None => tasks'[id].title = tasks[id].title
                /\ upd.description = None => tasks'[id].description = tasks[id].description
                /\ upd.completed = None => tasks'[id].completed = tasks[id].completed
        /\ (CreateWrite(c) /\ HasRow(client[c].id))
             => client'[c].result = "duplicate" ]_vars

----------------------------------------------------------------------------
(* C29: a createTask whose id is missing, is not a string, is empty or is
   made of whitespace only fails at once with the invalid-argument error: it
   writes no task row, changes no queue row and starts no write. *)
C29_InvalidIdRejected ==
  [][ \A c \in Clients, raw \in RawIds, data \in CreateData :
        (CreateBegin(c, raw, data)
           /\ (raw.kind # "string" \/ raw.val = "" \/ Trim(raw.val) = ""))
          => /\ client'[c].pc = "idle"
             /\ client'[c].result = "invalid"
             /\ tasks' = tasks
             /\ queue' = queue ]_vars

\* a create was rejected for its id while a task was stored and queued
C29_Witness ==
  \E c \in Clients, t \in DOMAIN tasks :
    /\ client[c].pc = "idle" /\ client[c].result = "invalid"
    /\ tasks[t].sync_status = "pending"
    /\ \E it \in queue : it.task_id = t /\ it.operation = "create"

----------------------------------------------------------------------------
(* C27: POST /sync answers 503 when its connectivity probe fails, and when the
   cycle it started was aborted for connectivity; 200 when the cycle ended
   with no failed item; and 207 exactly when the cycle ended with some items
   synced and some failed, so a cycle in which every item failed does not get
   207. *)
C27_RouteStatus ==
  [][ \A p \in Engines :
        /\ RouteSyncBegin(p, FALSE) => http'[p] = "503"
        /\ RouteSyncRespond(p) =>
             LET r == sync[p].result[1]
             IN /\ r = OfflineResult => http'[p] = "503"
                /\ (r # OfflineResult /\ r.failed_items = 0) => http'[p] = "200"
                /\ http'[p] = "207" <=> (r.synced_items > 0 /\ r.failed_items > 0) ]_vars

----------------------------------------------------------------------------
(* C28: POST /batch answers 400 to a body whose item list is empty, has an
   item without id, task_id, operation or data, or has an item whose operation
   is none of create, update and delete; and the response to an accepted request (200)
   holds one processed result per item of the request, in the order of the items:
   result i carries the task_id and the data of item i.  An item that is null
   has none of the four fields. *)
C28_BatchValidation ==
  batch.response # None =>
    LET body == batch.request[1]
        r == batch.response[1]
        n == Len(body.items)
    IN /\ (body.kind = "array" /\ n = 0) => r.status = "400"
       /\ (\E i \in 1..n :
             \/ body.items[i].id = None
             \/ body.items[i].task_id = None
             \/ body.items[i].operation = None
             \/ body.items[i].data = None
             \/ body.items[i].operation \notin {Some("create"), Some("update"), Some("delete")})
            => r.status = "400"
       /\ r.status = "200" =>
            /\ body.kind = "array"
            /\ Len(r.processed_items) = n
            /\ \A i \in 1..n :
                 /\ r.processed_items[i].client_id = body.items[i].task_id[1]
                 /\ r.processed_items[i].resolved_data = body.items[i].data[1]

----------------------------------------------------------------------------
(* C30: whatever creates, updates, deletes and sync cycles came before, getTask
   returns no soft-deleted task (it returns the stored task exactly when its
   row is not deleted), getAllTasks returns the non-deleted tasks, each once
   and no other, most recently created first, and no step removes a row from
   tasks, so the row of a deleted task stays stored. *)
C30_ReadsExcludeDeleted ==
  [][ /\ \A c \in Clients :
           /\ \A id \in ReadIds :
                GetTask(c, id) =>
                  LET g == client'[c].got
                  IN /\ g # None => (g[1].id = id /\ ~g[1].is_deleted)
                     /\ g # None <=> (id \in DOMAIN tasks /\ ~tasks[id].is_deleted)
           /\ GetAllTasks(c) =>
                LET l == client'[c].list
                IN /\ { l[i].id : i \in DOMAIN l } =
                        { id \in DOMAIN tasks : ~tasks[id].is_deleted }
                   /\ \A i, j \in DOMAIN l : i # j => l[i].id # l[j].id
                   /\ \A i \in DOMAIN l : ~l[i].is_deleted
                   /\ \A i, j \in DOMAIN l : i < j => l[i].created_at >= l[j].created_at
      /\ \A id \in DOMAIN tasks :
           tasks[id].is_deleted => id \in DOMAIN tasks' ]_vars

\* getAllTasks returned the one task left after two creates at different times
\* and the delete of the newer one
C30_Witness ==
  /\ client["c1"].result = "list"
  /\ Len(client["c1"].list) = 1
  /\ client["c1"].list[1].id = "t1"
  /\ DOMAIN tasks = {"t1", "t2"}
  /\ tasks["t2"].is_deleted
  /\ tasks["t2"].created_at > tasks["t1"].created_at

----------------------------------------------------------------------------
(* C31: retry bookkeeping.  A failed attempt (updateSyncStatus or
   removeFromSyncQueue raised) on an item with retry_count r < 2 leaves the
   queue as it is and hands that item to handleSyncError, whose UPDATE leaves
   the item in the queue with retry_count r + 1 and error_message the failure
   reason; when storage rejects that UPDATE no row changes.  In every state
   each queue item has retry_count in 0..2 and has an error_message exactly
   when its retry_count is at least 1. *)
C31_RetryBookkeeping ==
  /\ [](\A it \in queue :
          /\ it.retry_count \in 0..2
          /\ it.error_message # None <=> it.retry_count >= 1)
  /\ [][ \A p \in Engines :
           /\ ((MarkSynced(p, TRUE) \/ RemoveSynced(p, TRUE)) /\ CurItem(p).retry_count < 2) =>
                /\ queue' = queue
                /\ sync'[p].pc = "handle"
                /\ sync'[p].err # "none"
                /\ sync'[p].items[sync'[p].k] = CurItem(p)
           /\ HandleRetry(p, FALSE) =>
                /\ CurItem(p).retry_count < 2
                /\ \E it \in queue' :
                     /\ it.id = CurItem(p).id
                     /\ it.retry_count = CurItem(p).retry_count + 1
                     /\ it.error_message = Some(sync[p].err)
                /\ \A it \in queue : it.id # CurItem(p).id => it \in queue'
                /\ Cardinality(queue') = Cardinality(queue)
           /\ HandleRetry(p, TRUE) => queue' = queue ]_vars

\* an item failed in two cycles and waits with retry_count 2 and the reason of
\* its last failure
C31_Witness ==
  /\ sync["s1"].pc = "done"
  /\ sync["s1"].result[1].failed_items = 1
  /\ \E it \in queue :
       /\ it.retry_count = 2
       /\ it.error_message = Some("remove_failed")

----------------------------------------------------------------------------
(* C32: the data of a queue item is the task as stored at the enqueue: when
   createTask (create or restore), updateTask or deleteTask adds an item to
   sync_queue, every field of the item's data, sync_status, is_deleted and
   updated_at among them, equals that field of the task's row as the mutation
   just wrote it. *)
C32_SnapshotEqualsRow ==
  [][ \A c \in Clients :
        (Enqueue(c, FALSE) /\ queue' # queue) =>
          \A it \in queue' \ queue :
            /\ it.task_id = client[c].id
            /\ it.operation = client[c].op
            /\ HasRow(it.task_id)
            /\ \A f \in DOMAIN it.data : it.data[f] = tasks[it.task_id][f] ]_vars

----------------------------------------------------------------------------
(* C33: failures are isolated per item.  A cycle that passed the probe goes
   through its drained items one by one, each exactly once: every step of the
   cycle stays at its item or moves to the next one, and the cycle ends only
   after the last item, whatever failed before, a fault raised while the
   failure was being recorded included. *)
C33_FailuresAreIsolated ==
  [][ \A p \in Engines :
        (sync[p].pc \in {"mark", "remove", "handle", "handle_remove"} /\ sync'[p] # sync[p]) =>
          /\ sync'[p].items = sync[p].items
          /\ sync'[p].pc = "done" => sync[p].k = Len(sync[p].items)
          /\ sync'[p].pc # "done" => sync'[p].k \in {sync[p].k, sync[p].k + 1} ]_vars

----------------------------------------------------------------------------
(* C34: the result of a cycle that passed the probe accounts for every item
   once: synced_items + failed_items is the number of items the cycle drained
   and errors has as many entries as failed_items, storage faults inside
   handleSyncError included. *)
C34_ResultCountsEveryItem ==
  \A p \in Engines :
    (sync[p].pc = "done" /\ sync[p].result # None /\ sync[p].result[1] # OfflineResult) =>
      LET r == sync[p].result[1]
      IN /\ r.synced_items + r.failed_items = Len(sync[p].items)
         /\ Len(r.errors) = r.failed_items

----------------------------------------------------------------------------
(* C35: the operations of a task are propagated in the order of their enqueue:
   no item is removed from sync_queue as succeeded while an item of the same
   task with an earlier created_at is still queued after a failed attempt. *)
C35_PerTaskOrder ==
  [][ \A p \in Engines :
        RemoveSynced(p, FALSE) =>
          ~\E it \in queue :
             /\ it.task_id = CurItem(p).task_id
             /\ it.created_at < CurItem(p).created_at
             /\ it.retry_count >= 1 ]_vars

----------------------------------------------------------------------------
\* the ids a queue item can have within the bounds
LiveItemIds ==
  { QueueId(t, op, tm) : t \in TaskIds, op \in {"create", "update", "delete"}, tm \in 0..LiveTime }

(* C36: every queue item is removed in the end.  While sync() keeps being
   triggered and the probe reports the server reachable again and again, every
   sync cycle that started returns; and when no storage fault is raised, every
   item of sync_queue leaves the queue, in the first cycle that attempts it (so
   after no more than 3): no attempt reaches handleSyncError, the removal of an
   item leaves its task 'synced', and a cycle that passed the probe returns
   with none of its drained items left in the queue. *)
C36_EveryItemLeaves ==
  /\ \A p \in {"s1"} : (sync[p].pc \notin {"idle", "done"}) ~> (sync[p].pc = "done")
  /\ [](budget.faults = LiveFaults) =>
       \A qid \in LiveItemIds : HasItem(qid) ~> ~HasItem(qid)
  /\ [][ \A p \in Engines :
           budget'.faults = LiveFaults =>
             /\ sync'[p].pc \notin {"handle", "handle_remove"}
             /\ RemoveSynced(p, FALSE) =>
                  /\ \A it \in queue' : it.id # CurItem(p).id
                  /\ HasRow(CurItem(p).task_id) =>
                       tasks'[CurItem(p).task_id].sync_status = "synced"
             /\ (sync[p].pc # "done" /\ sync'[p].pc = "done"
                   /\ sync'[p].result # Some(OfflineResult)) =>
                  /\ sync'[p].result[1].synced_items = Len(sync'[p].items)
                  /\ \A i \in 1..Len(sync'[p].items) :
                       \A it \in queue' : it.id # sync'[p].items[i].id ]_vars

\* without any storage fault a cycle drained an item that had failed twice and
\* returned with the queue empty and the task 'synced'
C36_Witness ==
  /\ budget.faults = LiveFaults
  /\ sync["s1"].pc = "done"
  /\ Len(sync["s1"].items) >= 1
  /\ sync["s1"].items[1].retry_count = 2
  /\ sync["s1"].result[1].synced_items = Len(sync["s1"].items)
  /\ queue = {}
  /\ tasks["t1"].sync_status = "synced"

====
